---- MODULE Spec2Model ----
(***************************************************************************)
(* Bed probe subsystem of the firmware (Marlin/src/module/probe.cpp):      *)
(* Probe::set_deployed, Probe::probe_down_to_z, Probe::run_z_probe and     *)
(* Probe::probe_at_point, with the helpers they call.                      *)
(*                                                                         *)
(* The firmware is single threaded: one public operation runs at a time.   *)
(* pc is the position inside the running operation, stack the return       *)
(* positions of the calls in progress.  Conditional compilation is the     *)
(* record cfg, fixed by Init.  Lengths are whole millimetres.              *)
(***************************************************************************)
EXTENDS Integers, Sequences, FiniteSets, TLC

VARIABLES
  cfg,                    \* the build: probe variant and feature switches
  pc, stack,              \* position in the running operation, return positions
  current_z,              \* current_position.z (logical Z, as the planner has it)
  stepper_z,              \* Z according to the stepper count (physical Z)
  current_x,              \* current_position.x/.y, one abstract XY place
  offset_z,               \* Probe::offset.z
  axes_trusted,           \* axes_trusted bitmap, the set of trusted axes
  old_trusted,            \* static old_trusted of set_probing_paused
  stepper_enabled,        \* [X, Y, E] -> driver enabled
  heaters_paused,         \* thermalManager heaters paused
  fans_paused,            \* thermalManager fans paused
  stealth,                \* [X, Y, Z] -> stealthChop on
  stallguard,             \* [X, Y, Z] -> stallGuard (DIAG) on
  homing_current,         \* endstops: homing current asserted
  endstops_enabled,       \* endstops.enabled
  hit_state,              \* endstops.trigger_state(): latched hits
  z_probe_enabled,        \* endstops.z_probe_enabled, the deployed flag
  probe_phys,             \* where the probe hardware really is
  settings,               \* Probe::settings
  test_sensitivity,       \* Probe::test_sensitivity, the set of watched axes
  offset_sensorless_adj,  \* per tower adjustment
  largest_sensorless_adj, \* largest adjustment of the last triggered descent
  bltouch_hs,             \* bltouch.high_speed_mode
  ui_status,              \* the status line of the UI
  wait_for_user,          \* wait_for_user: an operator-driven wait is going on
  running,                \* IsRunning(): FALSE after stop()
  pap, rzp, pdz, sd,      \* frames of probe_at_point, run_z_probe, probe_down_to_z, set_deployed
  ev,                     \* what the running public operation did so far
  pre,                    \* the machine when the running public operation was called
  last                    \* the public operation completed before the running one

hwVars    == <<stepper_enabled, heaters_paused, fans_paused, stealth, stallguard,
               homing_current, endstops_enabled>>
posVars   == <<current_z, stepper_z, current_x>>
trustVars == <<axes_trusted, old_trusted>>
probeVars == <<z_probe_enabled, probe_phys, hit_state, largest_sensorless_adj>>
confVars  == <<cfg, offset_z, settings, test_sensitivity, offset_sensorless_adj, bltouch_hs>>
frameVars == <<pap, rzp, pdz, sd>>
ghostVars == <<ev, pre, last>>
vars == <<pc, stack, posVars, trustVars, hwVars, probeVars, confVars, ui_status,
          wait_for_user, running, frameVars, ghostVars>>

----------------------------------------------------------------------------
(* Configuration values of the build *)

Z_CLEARANCE_DEPLOY_PROBE   == 10
Z_CLEARANCE_BETWEEN_PROBES == 5
Z_CLEARANCE_MULTI_PROBE    == 5
Z_PROBE_LOW_POINT          == -2
UNTRUSTED_LOW_POINT        == -10   \* "If Z isn't known then probe to -10mm"
FAST_DOWN_MARGIN           == 5     \* Z_CLEARANCE_DEPLOY_PROBE + 5.0
BIG_RAISE                  == 25
SENSORLESS_SENTINEL        == -3
DELTA_CLIP_START_HEIGHT    == 20    \* delta_clip_start_height
SLED_DOCK_X                == 3     \* X_MAX_POS + SLED_DOCKING_OFFSET, and where the deploy moves end

(* Bounds of the model *)
MaxBedErr  == 1    \* the probe triggers 0..MaxBedErr above its nominal height
MaxZ       == 40   \* no probing is started from above MaxZ
MaxSample  == 3    \* the samples given to the trimmed mean are 0..MaxSample

Axes    == {"X", "Y", "Z"}
Drivers == {"X", "Y", "E"}
RaiseAfter == {"PROBE_PT_NONE", "PROBE_PT_STOW", "PROBE_PT_LAST_STOW",
               "PROBE_PT_RAISE", "PROBE_PT_BIG_RAISE"}
Variants == {"FIX_MOUNTED_PROBE", "SOLENOID_PROBE", "BLTOUCH", "Z_PROBE_SLED",
             "Z_PROBE_ALLEN_KEY", "TOUCH_MI_PROBE", "SENSORLESS_PROBING"}

(* float values: NaN or the fraction num/den *)
NaN      == [nan |-> TRUE, num |-> 0, den |-> 1]
Num(n)   == [nan |-> FALSE, num |-> n, den |-> 1]
Frac(n, d) == [nan |-> FALSE, num |-> n, den |-> d]
isnan(f) == f.nan
AddF(f, k) == IF f.nan THEN NaN ELSE Frac(f.num + k * f.den, f.den)
_MAX(a, b) == IF a > b THEN a ELSE b
_MIN(a, b) == IF a < b THEN a ELSE b

----------------------------------------------------------------------------
(* The builds checked: one feature family is varied at a time around BaseCfg *)

BaseCfg ==
  [ variant |-> "SOLENOID_PROBE",
    PAUSE_BEFORE_DEPLOY_STOW |-> FALSE,
    PAUSE_PROBE_DEPLOY_WHEN_TRIGGERED |-> FALSE,
    PROBE_TRIGGERED_WHEN_STOWED_TEST |-> FALSE,
    PREHEAT_BEFORE_PROBING |-> FALSE,
    DELTA |-> FALSE,
    PROBING_HEATERS_OFF |-> FALSE,
    HAS_PROBE_SETTINGS |-> FALSE,
    PROBING_FANS_OFF |-> FALSE,
    PROBING_ESTEPPERS_OFF |-> FALSE,
    PROBING_STEPPERS_OFF |-> FALSE,
    TOTAL_PROBING |-> 1,
    EXTRA_PROBING |-> 0,
    FEEDRATE_FAST_NE_SLOW |-> FALSE,
    PROBE_TARE |-> FALSE,
    PROBE_TARE_ONLY_WHILE_INACTIVE |-> FALSE,
    BD_SENSOR |-> FALSE ]

(* deploy/stow family: every probe variant, with and without the triggered-when-stowed test *)
DeployCfgs ==
  { [BaseCfg EXCEPT !.variant = v, !.PROBE_TRIGGERED_WHEN_STOWED_TEST = t,
                    !.PAUSE_BEFORE_DEPLOY_STOW = p, !.PREHEAT_BEFORE_PROBING = h] :
      v \in Variants, t \in BOOLEAN, p \in BOOLEAN, h \in BOOLEAN }

(* quiet-probing family: every combination of the quiet features; the BLTouch and *)
(* the sensorless descents without and with all of them                          *)
Quiet(c, q) ==
  [c EXCEPT !.PROBING_HEATERS_OFF = q[1], !.HAS_PROBE_SETTINGS = q[2],
            !.PROBING_FANS_OFF = q[3], !.PROBING_ESTEPPERS_OFF = q[4],
            !.PROBING_STEPPERS_OFF = q[5]]
DescentCfgs ==
  { Quiet(BaseCfg, q) : q \in BOOLEAN \X BOOLEAN \X BOOLEAN \X BOOLEAN \X BOOLEAN }
    \cup { Quiet([BaseCfg EXCEPT !.variant = v[1], !.DELTA = v[2]], <<q, q, q, q, q>>) :
             v \in {<<"BLTOUCH", FALSE>>, <<"SENSORLESS_PROBING", FALSE>>,
                    <<"SENSORLESS_PROBING", TRUE>>}, q \in BOOLEAN }

(* sampling family: single, double and multiple probing with and without tare; *)
(* fast pre-positioning; the BD sensor                                         *)
SampleCfgs ==
  { [BaseCfg EXCEPT !.TOTAL_PROBING = n[1], !.EXTRA_PROBING = n[2],
                    !.PROBE_TARE = t[1], !.PROBE_TARE_ONLY_WHILE_INACTIVE = t[2]] :
      n \in {<<1, 0>>, <<2, 0>>, <<3, 0>>, <<3, 1>>},
      t \in {<<FALSE, FALSE>>, <<TRUE, FALSE>>, <<TRUE, TRUE>>} }
    \cup { [BaseCfg EXCEPT !.FEEDRATE_FAST_NE_SLOW = TRUE], [BaseCfg EXCEPT !.BD_SENSOR = TRUE] }

(* fast pre-positioning with a BLTouch *)
PrepositionCfgs ==
  { [BaseCfg EXCEPT !.variant = "BLTOUCH", !.FEEDRATE_FAST_NE_SLOW = TRUE] }

(* what the configuration headers allow *)
(* the manual probe that the firmware waits for, without and with preheating *)
WaitCfgs ==
  { [BaseCfg EXCEPT !.variant = "FIX_MOUNTED_PROBE", !.PAUSE_BEFORE_DEPLOY_STOW = TRUE,
                    !.PAUSE_PROBE_DEPLOY_WHEN_TRIGGERED = TRUE,
                    !.PREHEAT_BEFORE_PROBING = h] : h \in BOOLEAN }

ValidCfg(c) ==
  /\ c.PROBE_TRIGGERED_WHEN_STOWED_TEST =>
       c.variant \in {"SOLENOID_PROBE", "Z_PROBE_SLED", "Z_PROBE_ALLEN_KEY", "TOUCH_MI_PROBE"}
  /\ c.variant = "Z_PROBE_ALLEN_KEY" => c.PROBE_TRIGGERED_WHEN_STOWED_TEST
  /\ c.PAUSE_BEFORE_DEPLOY_STOW => c.variant = "FIX_MOUNTED_PROBE"
  /\ c.PREHEAT_BEFORE_PROBING => c.variant \in {"FIX_MOUNTED_PROBE", "SOLENOID_PROBE"}
  /\ c.DELTA => c.variant = "SENSORLESS_PROBING"
  /\ c.HAS_PROBE_SETTINGS => c.PROBING_HEATERS_OFF
  /\ c.BD_SENSOR => (c.TOTAL_PROBING = 1 /\ ~c.PROBE_TARE /\ ~c.FEEDRATE_FAST_NE_SLOW)

  /\ c.PAUSE_PROBE_DEPLOY_WHEN_TRIGGERED => c.PAUSE_BEFORE_DEPLOY_STOW

Configs ==
  { c \in DeployCfgs \cup DescentCfgs \cup SampleCfgs \cup PrepositionCfgs \cup WaitCfgs :
      ValidCfg(c) }

HAS_DELTA_SENSORLESS_PROBING == cfg.variant = "SENSORLESS_PROBING" /\ cfg.DELTA
HAS_QUIET_PROBING ==
  cfg.PROBING_HEATERS_OFF \/ cfg.PROBING_FANS_OFF \/ cfg.PROBING_ESTEPPERS_OFF
    \/ cfg.PROBING_STEPPERS_OFF
BLTOUCH_LOW_SPEED == cfg.variant = "BLTOUCH" /\ ~bltouch_hs

All(S, b) == [a \in S |-> b]

(* the machine states a build can be in when the first probing operation is called; *)
(* each runtime setting is varied on the plainest build that reads it                *)
Runtimes(c) ==
  { r \in
      [ offset_z : IF c = BaseCfg THEN {-2, 1} ELSE {-2},
        z_trusted : IF c = BaseCfg THEN BOOLEAN ELSE {TRUE},
        xy_trusted : IF c.variant \in {"Z_PROBE_SLED", "Z_PROBE_ALLEN_KEY"}
                        \/ c = Quiet(BaseCfg, <<FALSE, FALSE, FALSE, FALSE, TRUE>>)
                     THEN {{"X", "Y"}, {"Y"}} ELSE {{"X", "Y"}},
        stealth : IF c.variant = "SENSORLESS_PROBING" /\ ~c.PROBING_FANS_OFF
                  THEN {All(Axes, TRUE), [a \in Axes |-> a = "Y"]} ELSE {All(Axes, TRUE)},
        test_sensitivity : IF c.variant = "SENSORLESS_PROBING" /\ ~c.PROBING_FANS_OFF
                           THEN {Axes, {"Y", "Z"}} ELSE {Axes},
        turn_heaters_off : IF c = Quiet(BaseCfg, <<TRUE, TRUE, FALSE, FALSE, FALSE>>)
                           THEN BOOLEAN ELSE {TRUE},
        stabilize : IF c = Quiet(BaseCfg, <<TRUE, TRUE, FALSE, FALSE, FALSE>>)
                    THEN BOOLEAN ELSE {FALSE},
        bltouch_hs : IF c.variant = "BLTOUCH" /\ ~c.PROBING_FANS_OFF
                     THEN BOOLEAN ELSE {FALSE} ] :
      /\ r.stabilize => r.turn_heaters_off
      /\ (r.stealth = All(Axes, TRUE)) = (r.test_sensitivity = Axes) }

NoFrame == [on |-> FALSE]
FreshEv(op, arg) ==
  [ op |-> op, arg |-> arg, done |-> FALSE, ret_fail |-> FALSE, ret |-> NaN,
    moves |-> 0, actions |-> 0, raises |-> 0, preheats |-> 0,
    deploys |-> 0, stows |-> 0, post_raise |-> FALSE, descents |-> 0,
    tare_refused |-> FALSE, no_trigger |-> FALSE, early_trigger |-> FALSE,
    bltouch_fail |-> FALSE, bltouch_reset |-> FALSE, reachable |-> TRUE,
    error_stops |-> 0, stops |-> 0, reports |-> 0, xy_returns |-> 0, prompts |-> 0 ]

NoLast == [op |-> "none", arg |-> "none", ret_fail |-> FALSE]
NoEv == [FreshEv("none", "none") EXCEPT !.done = TRUE]

(* the machine, as a public operation finds and leaves it *)
MachineState ==
  [ current_z |-> current_z, stepper_z |-> stepper_z, current_x |-> current_x,
    axes_trusted |-> axes_trusted, stepper_enabled |-> stepper_enabled,
    heaters_paused |-> heaters_paused, fans_paused |-> fans_paused,
    stealth |-> stealth, stallguard |-> stallguard, homing_current |-> homing_current,
    endstops_enabled |-> endstops_enabled, hit_state |-> hit_state,
    z_probe_enabled |-> z_probe_enabled, probe_phys |-> probe_phys,
    largest_sensorless_adj |-> largest_sensorless_adj,
    ui_status |-> ui_status, running |-> running ]

InitOf(builds) ==
  \E c \in builds : \E r \in Runtimes(c) :
    /\ cfg = c
    /\ pc = "idle" /\ stack = <<>>
    /\ current_z = 0 /\ stepper_z = 0 /\ current_x = 0
    /\ offset_z = r.offset_z
    /\ axes_trusted = r.xy_trusted \cup (IF r.z_trusted THEN {"Z"} ELSE {})
    /\ old_trusted = {}
    /\ stepper_enabled = All(Drivers, TRUE)
    /\ heaters_paused = FALSE /\ fans_paused = FALSE
    /\ stealth = r.stealth
    /\ stallguard = All(Axes, FALSE)
    /\ homing_current = FALSE /\ endstops_enabled = FALSE
    /\ hit_state = {}
    /\ z_probe_enabled = FALSE
    /\ probe_phys = "stowed"
    /\ settings = [turn_heaters_off |-> r.turn_heaters_off,
                   stabilize_temperatures_after_probing |-> r.stabilize]
    /\ test_sensitivity = r.test_sensitivity
    /\ offset_sensorless_adj = [a \in Axes |-> CASE a = "X" -> 1 [] a = "Y" -> 2 [] OTHER -> -1]
    /\ largest_sensorless_adj = 0
    /\ bltouch_hs = r.bltouch_hs
    /\ ui_status = "ready" /\ wait_for_user = FALSE /\ running = TRUE
    /\ pap = NoFrame /\ rzp = NoFrame /\ pdz = NoFrame /\ sd = NoFrame
    /\ ev = NoEv
    /\ pre = NoFrame
    /\ last = NoLast

Init == InitOf(Configs)

----------------------------------------------------------------------------
(* Calls and returns *)

Call(entry, ret) == pc' = entry /\ stack' = <<ret>> \o stack
Return           == pc' = Head(stack) /\ stack' = Tail(stack)

(* motion.cpp: a blocking move of Z to z. The planner's Z becomes z; the stepper *)
(* count moves by the distance the planner asked for.                            *)
MoveZ(z) == current_z' = z /\ stepper_z' = stepper_z + (z - current_z)

(* motion.cpp do_z_clearance: raise to zdest, never lower *)
do_z_clearance_dest(zdest) == IF zdest < current_z THEN current_z ELSE zdest

(* Probe::do_z_raise: the Z that do_z_clearance is asked for *)
do_z_raise_dest(z_raise) == IF offset_z < 0 THEN z_raise - offset_z ELSE z_raise

(* motion.cpp homing_needed_error: some of the axes is not trusted *)
homing_needed_error(axes) == ~(axes \subseteq axes_trusted)

(* the targets the machine can reach: target 0 lies outside *)
Reachable == {1, 2}

(* Probe::can_reach of the target *)
can_reach(rx, probe_relative) == rx \in Reachable

(* faulty variant of out_of_reach: the target is not tested *)
out_of_reach_never(rx, probe_relative) == FALSE

(* line 914: the target cannot be probed *)
out_of_reach(rx, probe_relative) == ~can_reach(rx, probe_relative)

(* PROBE_TRIGGERED(): with a probe that is triggered when stowed, the pin reads *)
(* triggered exactly while the probe hardware is stowed                         *)
PROBE_TRIGGERED(phys) == phys = "stowed"

(* where probe_specific_action leaves XY: the sled docks, the Allen key and the *)
(* TouchMI deploy moves end away from the probed place                          *)
ActionX(deploy) ==
  CASE cfg.variant = "Z_PROBE_SLED" -> SLED_DOCK_X
    [] cfg.variant = "Z_PROBE_ALLEN_KEY" -> SLED_DOCK_X
    [] cfg.variant = "TOUCH_MI_PROBE" /\ deploy -> SLED_DOCK_X
    [] OTHER -> current_x

(* blocking moves probe_specific_action makes *)
ActionMoves(deploy) ==
  CASE cfg.variant \in {"Z_PROBE_SLED", "Z_PROBE_ALLEN_KEY"} -> 1
    [] cfg.variant = "TOUCH_MI_PROBE" -> IF deploy THEN 1 ELSE 2
    [] OTHER -> 0

(* the probe hardware after probe_specific_action(deploy): a fixed probe has *)
(* nothing to move; the others move unless the mechanism is stuck            *)
ActionPhys(deploy, works) ==
  IF cfg.variant \in {"FIX_MOUNTED_PROBE", "SENSORLESS_PROBING"} /\ ~cfg.PAUSE_BEFORE_DEPLOY_STOW
    THEN probe_phys
    ELSE IF works THEN (IF deploy THEN "deployed" ELSE "stowed") ELSE probe_phys

(* the status line after probe_specific_action: the manual deploy prompt ends *)
(* with ui.reset_status()                                                     *)
ActionUi == IF cfg.PAUSE_BEFORE_DEPLOY_STOW THEN "ready" ELSE ui_status

----------------------------------------------------------------------------
(* Probe::set_deployed *)

z_raise_wanted(deploy) ==
  IF cfg.variant = "FIX_MOUNTED_PROBE" /\ ~cfg.PAUSE_BEFORE_DEPLOY_STOW THEN deploy ELSE TRUE

(* faulty variant of homing_axes: no axis is asked for *)
homing_axes_none == {}

(* the axes set_deployed wants homed: X for the sled, all for the Allen key *)
homing_axes == IF cfg.variant = "Z_PROBE_SLED" THEN {"X"} ELSE Axes

(* faulty variant of already_set: the flag is never found set as asked *)
already_set_never(deploy) == FALSE

(* line 525: the probe is already in the state asked for *)
already_set(deploy) == z_probe_enabled = deploy

(* faulty variant of switched_off_early: the probe is left switched on *)
switched_off_early_never(deploy, needed) == FALSE

(* line 552: a probe that is triggered when stowed is switched off before it is *)
(* stowed; the TouchMI stow moves switch it off as well (line 197)              *)
switched_off_early(deploy, needed) ==
  needed /\ ~deploy
    /\ (cfg.PROBE_TRIGGERED_WHEN_STOWED_TEST \/ cfg.variant = "TOUCH_MI_PROBE")

(* faulty variant of action_needed: the trigger is not looked at *)
action_needed_always(deploy, phys) == TRUE

(* lines 548-555 and 568: probe_specific_action runs when the build has no        *)
(* triggered-when-stowed test, or when PROBE_TRIGGERED() reads the same as deploy *)
action_needed(deploy, phys) ==
  ~cfg.PROBE_TRIGGERED_WHEN_STOWED_TEST \/ (PROBE_TRIGGERED(phys) = deploy)

(* lines 518-546: the deployed flag is tested first; then the raise and the homing check *)
set_deployed_entry ==
  /\ pc = "sd_entry"
  /\ IF already_set(sd.deploy)
       THEN /\ sd' = [sd EXCEPT !.ret = FALSE]
            /\ Return
            /\ UNCHANGED <<posVars, running, ev>>
       ELSE LET dest   == do_z_clearance_dest(do_z_raise_dest(
                             _MAX(Z_CLEARANCE_BETWEEN_PROBES, Z_CLEARANCE_DEPLOY_PROBE)))
                raised == z_raise_wanted(sd.deploy)
                unhomed == cfg.variant \in {"Z_PROBE_SLED", "Z_PROBE_ALLEN_KEY"}
                             /\ homing_needed_error(homing_axes)
            IN  /\ IF raised THEN MoveZ(dest) ELSE UNCHANGED <<current_z, stepper_z>>
                /\ UNCHANGED current_x
                /\ ev' = [ev EXCEPT !.raises = @ + (IF raised THEN 1 ELSE 0),
                                    !.moves = @ + (IF raised THEN 1 ELSE 0),
                                    !.error_stops = @ + (IF unhomed THEN 1 ELSE 0)]
                /\ IF unhomed
                     THEN /\ running' = FALSE            \* probe_error_stop
                          /\ sd' = [sd EXCEPT !.ret = TRUE]
                          /\ Return
                     ELSE /\ UNCHANGED running
                          /\ sd' = [sd EXCEPT !.old_xy = current_x]
                          /\ pc' = "sd_action" /\ UNCHANGED stack
  /\ UNCHANGED <<trustVars, hwVars, probeVars, confVars, ui_status, wait_for_user, pap, rzp, pdz, pre, last>>

(* faulty variant of wait_loop_polls: wait_for_user is not looked at *)
wait_loop_polls_trigger_only(deploy) == deploy = PROBE_TRIGGERED(probe_phys)

(* line 388: the wait loop polls while the trigger reads the same as deploy and *)
(* wait_for_user is set                                                         *)
wait_loop_polls(deploy) == deploy = PROBE_TRIGGERED(probe_phys) /\ wait_for_user

(* lines 373-387: with PAUSE_PROBE_DEPLOY_WHEN_TRIGGERED probe_specific_action starts *)
(* preheating, shows the manual deploy or stow message and begins to wait           *)
probe_specific_action_pause ==
  /\ pc = "sd_action" /\ cfg.PAUSE_PROBE_DEPLOY_WHEN_TRIGGERED
  /\ action_needed(sd.deploy, probe_phys)
  /\ ui_status' = IF sd.deploy THEN "MSG_MANUAL_DEPLOY" ELSE "MSG_MANUAL_STOW"
  /\ wait_for_user' = TRUE
  /\ ev' = [ev EXCEPT !.preheats = @ + (IF cfg.PREHEAT_BEFORE_PROBING /\ sd.deploy
                                          THEN 1 ELSE 0)]
  /\ pc' = "psa_wait"
  /\ UNCHANGED <<stack, posVars, trustVars, hwVars, probeVars, confVars, running,
                 frameVars, pre, last>>

(* the operator, while the firmware waits in idle_no_sleep() or in              *)
(* wait_for_user_response(): the probe is attached or detached as asked, or the *)
(* wait is ended from the UI or the host                                        *)
operator_acts ==
  /\ pc \in {"psa_wait", "psa_confirm"}
  /\ \/ /\ PROBE_TRIGGERED(probe_phys) = sd.deploy
        /\ probe_phys' = IF sd.deploy THEN "deployed" ELSE "stowed"
        /\ UNCHANGED wait_for_user
     \/ /\ wait_for_user
        /\ wait_for_user' = FALSE
        /\ UNCHANGED probe_phys
  /\ UNCHANGED <<pc, stack, posVars, trustVars, hwVars, z_probe_enabled, hit_state,
                 largest_sensorless_adj, confVars, ui_status, running, frameVars, ghostVars>>

(* lines 388-390: the wait loop is left and wait_for_user cleared *)
wait_loop_exit ==
  /\ pc = "psa_wait" /\ ~wait_loop_polls(sd.deploy)
  /\ wait_for_user' = FALSE
  /\ pc' = "psa_prompt"
  /\ UNCHANGED <<stack, posVars, trustVars, hwVars, probeVars, confVars, ui_status, running,
                 frameVars, ghostVars>>

(* lines 394-397: the confirmation is asked for: wait_for_user_response() sets *)
(* wait_for_user and waits for it to be cleared                               *)
confirm_prompt ==
  /\ pc = "psa_prompt"
  /\ wait_for_user' = TRUE
  /\ ev' = [ev EXCEPT !.prompts = @ + 1]
  /\ pc' = "psa_confirm"
  /\ UNCHANGED <<stack, posVars, trustVars, hwVars, probeVars, confVars, ui_status, running,
                 frameVars, pre, last>>

(* lines 397-399: wait_for_user_response() returns, the status line is reset *)
confirm_given ==
  /\ pc = "psa_confirm" /\ ~wait_for_user
  /\ ui_status' = "ready"
  /\ pc' = "psa_done"
  /\ UNCHANGED <<stack, posVars, trustVars, hwVars, probeVars, confVars, wait_for_user,
                 running, frameVars, ghostVars>>

(* lines 548-582: the deploy/stow action, its verification, preheat, the way back; *)
(* at "psa_done" the manual prompt of probe_specific_action has been gone through  *)
set_deployed_action ==
  /\ \/ pc = "sd_action" /\ ~cfg.PAUSE_PROBE_DEPLOY_WHEN_TRIGGERED
     \/ pc = "psa_done"
  /\ \E works \in (IF cfg.PROBE_TRIGGERED_WHEN_STOWED_TEST THEN BOOLEAN ELSE {TRUE}) :
       LET deploy == sd.deploy
           test   == cfg.PROBE_TRIGGERED_WHEN_STOWED_TEST
           waited == pc = "psa_done"
           needed == action_needed(deploy, probe_phys)
           phys1  == IF needed /\ ~waited THEN ActionPhys(deploy, works) ELSE probe_phys
           x1     == IF needed THEN ActionX(deploy) ELSE current_x
           ui1    == IF needed THEN ActionUi ELSE ui_status
           early_off == switched_off_early(deploy, needed)
           failed == test /\ (PROBE_TRIGGERED(phys1) = deploy)
           heat   == cfg.PREHEAT_BEFORE_PROBING /\ deploy
           early_heat == needed /\ heat /\ cfg.PAUSE_BEFORE_DEPLOY_STOW /\ ~waited
       IN  /\ probe_phys' = phys1
           /\ UNCHANGED <<current_z, stepper_z, hit_state, largest_sensorless_adj>>
           /\ IF failed
                THEN /\ running' = FALSE                 \* stop()
                     /\ ui_status' = IF running THEN "Err: ZPROBE" ELSE ui1
                     /\ current_x' = x1
                     /\ z_probe_enabled' = IF early_off THEN FALSE ELSE z_probe_enabled
                     /\ ev' = [ev EXCEPT !.actions = @ + (IF needed THEN 1 ELSE 0),
                                         !.preheats = @ + (IF early_heat THEN 1 ELSE 0),
                                         !.moves = @ + (IF needed THEN ActionMoves(deploy) ELSE 0),
                                         !.stops = @ + 1,
                                         !.reports = @ + (IF running THEN 1 ELSE 0)]
                     /\ sd' = [sd EXCEPT !.ret = TRUE]
                ELSE /\ UNCHANGED running
                     /\ ui_status' = IF heat THEN "MSG_PREHEATING" ELSE ui1
                     /\ current_x' = sd.old_xy           \* do_blocking_move_to(old_xy)
                     /\ z_probe_enabled' = deploy        \* endstops.enable_z_probe(deploy)
                     /\ ev' = [ev EXCEPT !.actions = @ + (IF needed THEN 1 ELSE 0),
                                         !.preheats = @ + (IF heat THEN 1 ELSE 0)
                                                        + (IF early_heat THEN 1 ELSE 0),
                                         !.moves = @ + 1 + (IF needed THEN ActionMoves(deploy) ELSE 0),
                                         !.xy_returns = @ + 1]
                     /\ sd' = [sd EXCEPT !.ret = FALSE]
  /\ Return
  /\ UNCHANGED <<trustVars, hwVars, confVars, wait_for_user, pap, rzp, pdz, pre, last>>

----------------------------------------------------------------------------
(* Probe::set_probing_paused *)

(* faulty variant of set_probing_paused: the heaters and fans are paused whatever *)
(* is asked for                                                                  *)
set_probing_paused_stuck(dopause) ==
  /\ heaters_paused' = TRUE /\ fans_paused' = TRUE
  /\ UNCHANGED <<stepper_enabled, old_trusted, axes_trusted>>

(* stepper.disable_axis also marks the axis untrusted, which is why old_trusted is kept *)
set_probing_paused(dopause) ==
  LET xy == cfg.PROBING_STEPPERS_OFF /\ ~cfg.DELTA IN
  /\ heaters_paused' =
       IF cfg.PROBING_HEATERS_OFF /\ (cfg.HAS_PROBE_SETTINGS => settings.turn_heaters_off)
         THEN dopause ELSE heaters_paused
  /\ fans_paused' = IF cfg.PROBING_FANS_OFF THEN dopause ELSE fans_paused
  /\ stepper_enabled' =
       [d \in Drivers |->
          CASE d = "E" -> IF cfg.PROBING_ESTEPPERS_OFF /\ dopause THEN FALSE
                          ELSE stepper_enabled[d]
            [] OTHER   -> IF ~xy THEN stepper_enabled[d]
                          ELSE IF dopause THEN FALSE
                          ELSE IF d \in old_trusted THEN TRUE ELSE stepper_enabled[d]]
  /\ old_trusted' = IF xy /\ dopause THEN axes_trusted ELSE old_trusted
  /\ axes_trusted' = IF ~xy THEN axes_trusted
                     ELSE IF dopause THEN axes_trusted \ {"X", "Y"} ELSE old_trusted

----------------------------------------------------------------------------
(* Probe::probe_down_to_z *)

MaxOf(S) == CHOOSE m \in S : \A x \in S : x <= m

(* faulty variant of refresh_largest_sensorless_adj: the old value is not reset *)
refresh_without_reset(state) ==
  MaxOf({largest_sensorless_adj} \cup {offset_sensorless_adj[a] : a \in state \cap Axes})

(* Probe::refresh_largest_sensorless_adj, from the towers endstops.state() shows *)
refresh_largest_sensorless_adj(state) ==
  MaxOf({SENSORLESS_SENTINEL} \cup {offset_sensorless_adj[a] : a \in state \cap Axes})

(* the axes whose driver probe_down_to_z switches to stallGuard *)
sensed_axes ==
  IF cfg.variant # "SENSORLESS_PROBING" THEN {}
  ELSE IF cfg.DELTA THEN test_sensitivity ELSE test_sensitivity \cap {"Z"}

(* the quiet-probing and driver state that a descent changes and has to put back *)
QuietState ==
  [ heaters_paused |-> heaters_paused, fans_paused |-> fans_paused,
    stepper_enabled |-> stepper_enabled, axes_trusted |-> axes_trusted,
    stealth |-> stealth, stallguard |-> stallguard, homing_current |-> homing_current ]

CallPdz(z, ret) ==
  /\ pdz' = [on |-> TRUE, z |-> z, ret |-> FALSE, probe_triggered |-> FALSE,
             stealth_states |-> All(Axes, FALSE), snap |-> QuietState,
             from |-> stepper_z, target |-> stepper_z, stop |-> stepper_z,
             hit |-> FALSE, moved |-> FALSE, synced |-> FALSE,
             bltouch_fail |-> "none", towers |-> {}, start_adj |-> largest_sensorless_adj,
             pauses |-> 0, resumes |-> 0, sg_on |-> {}, sg_off |-> {},
             current_on |-> 0, current_off |-> 0]
  /\ Call("pdz_entry", ret)

(* heights at which the probe can trigger: its nominal height -offset.z plus the *)
(* unevenness of the bed, and one spurious trigger above every clearance         *)
EarlyTriggerRise == _MAX(Z_CLEARANCE_BETWEEN_PROBES, Z_CLEARANCE_MULTI_PROBE) + 1
TriggerHeights == { -offset_z + e : e \in (0..MaxBedErr) \cup {EarlyTriggerRise} }

(* the trigger input is watched: the probe channel, or the stallGuard of a tower *)
probe_armed ==
  CASE cfg.variant = "SENSORLESS_PROBING" /\ cfg.DELTA ->
         endstops_enabled /\ \E a \in Axes : stallguard[a]
    [] cfg.variant = "SENSORLESS_PROBING" -> z_probe_enabled /\ stallguard["Z"]
    [] OTHER -> z_probe_enabled

(* what the endstops latch when the probe triggers *)
TriggerHits ==
  IF cfg.variant = "SENSORLESS_PROBING" /\ cfg.DELTA
    THEN {{a} : a \in {b \in Axes : stallguard[b]}} \cup {{b \in Axes : stallguard[b]}}
    ELSE {{"Z_MIN_PROBE"}}

(* motion.cpp do_blocking_move_to_z with the trigger watched: the move runs to the *)
(* target unless the trigger latches on the way, which aborts it there             *)
MoveOutcomes(z) ==
  LET target == stepper_z + (z - current_z) IN
  {[stop |-> target, hit |-> {}]}
    \cup (IF probe_armed
            THEN {[stop |-> h, hit |-> t] :
                    h \in {x \in TriggerHeights : target <= x /\ x <= stepper_z},
                    t \in TriggerHits}
            ELSE {})

(* lines 599-639: waits, BLTouch stylus deploy, stallGuard on, quiet probing on *)
probe_down_to_z_entry ==
  /\ pc = "pdz_entry"
  /\ LET heatup == cfg.PROBING_HEATERS_OFF
                     /\ (cfg.HAS_PROBE_SETTINGS =>
                           settings.turn_heaters_off /\ settings.stabilize_temperatures_after_probing)
     IN \E busy \in (IF heatup THEN BOOLEAN ELSE {FALSE}),
           blt_fail \in (IF BLTOUCH_LOW_SPEED THEN BOOLEAN ELSE {FALSE}) :
       /\ ui_status' = IF busy THEN "Waiting for heat-up..." ELSE ui_status
       /\ IF blt_fail
            THEN /\ pdz' = [pdz EXCEPT !.ret = TRUE, !.bltouch_fail = "deploy"]
                 /\ ev' = [ev EXCEPT !.bltouch_fail = TRUE]
                 /\ Return
                 /\ UNCHANGED <<trustVars, hwVars>>
            ELSE /\ pdz' = [pdz EXCEPT !.stealth_states =
                              [a \in Axes |-> IF a \in sensed_axes THEN stealth[a] ELSE FALSE],
                              !.sg_on = sensed_axes,
                              !.current_on = @ + (IF cfg.variant = "SENSORLESS_PROBING" THEN 1 ELSE 0),
                              !.pauses = @ + (IF HAS_QUIET_PROBING THEN 1 ELSE 0)]
                 /\ stealth' = [a \in Axes |-> IF a \in sensed_axes THEN FALSE ELSE stealth[a]]
                 /\ stallguard' = [a \in Axes |-> IF a \in sensed_axes THEN TRUE ELSE stallguard[a]]
                 /\ homing_current' = IF cfg.variant = "SENSORLESS_PROBING" THEN TRUE
                                      ELSE homing_current
                 /\ endstops_enabled' = IF cfg.variant = "SENSORLESS_PROBING" THEN TRUE
                                        ELSE endstops_enabled
                 /\ IF HAS_QUIET_PROBING THEN set_probing_paused(TRUE)
                    ELSE UNCHANGED <<heaters_paused, fans_paused, stepper_enabled, trustVars>>
                 /\ pc' = "pdz_move" /\ UNCHANGED <<stack, ev>>
  /\ UNCHANGED <<posVars, probeVars, confVars, wait_for_user, running, pap, rzp, sd, pre, last>>

(* lines 641-642: the blocking move down, aborted by the trigger *)
probe_down_to_z_move ==
  /\ pc = "pdz_move"
  /\ \E o \in MoveOutcomes(pdz.z) :
       /\ current_z' = pdz.z
       /\ stepper_z' = o.stop
       /\ hit_state' = hit_state \cup o.hit
       /\ pdz' = [pdz EXCEPT !.from = stepper_z, !.target = stepper_z + (pdz.z - current_z),
                              !.stop = o.stop, !.hit = (o.hit # {}), !.moved = TRUE,
                              !.towers = o.hit \cap Axes]
  /\ ev' = [ev EXCEPT !.moves = @ + 1, !.descents = @ + 1]
  /\ pc' = "pdz_finish"
  /\ UNCHANGED <<stack, current_x, trustVars, hwVars, z_probe_enabled, probe_phys,
                 largest_sensorless_adj, confVars, ui_status, wait_for_user, running, pap, rzp, sd, pre, last>>

(* the UI or the host, while the blocking move yields: Probe::settings is      *)
(* mutable, and turn_heaters_off is switched over                             *)
settings_changed ==
  /\ pc = "pdz_move" /\ cfg.HAS_PROBE_SETTINGS
  /\ settings' = [settings EXCEPT !.turn_heaters_off = ~@]
  /\ UNCHANGED <<pc, stack, posVars, trustVars, hwVars, probeVars, cfg, offset_z,
                 test_sensitivity, offset_sensorless_adj, bltouch_hs, ui_status,
                 wait_for_user, running, frameVars, ghostVars>>

(* lines 644-651: was the probe triggered *)
probe_triggered_of(hits) ==
  IF HAS_DELTA_SENSORLESS_PROBING THEN hits \cap Axes # {} ELSE "Z_MIN_PROBE" \in hits

(* lines 653-686: adjustment, quiet probing off, stallGuard off, BLTouch stylus *)
(* stow, then the endstop latch is cleared and Z is taken from the steppers     *)
probe_down_to_z_finish ==
  /\ pc = "pdz_finish"
  /\ LET probe_triggered == probe_triggered_of(hit_state) IN
     \E blt_fail \in (IF BLTOUCH_LOW_SPEED /\ probe_triggered THEN BOOLEAN ELSE {FALSE}) :
       /\ largest_sensorless_adj' =
            IF HAS_DELTA_SENSORLESS_PROBING /\ probe_triggered
              THEN refresh_largest_sensorless_adj(hit_state) ELSE largest_sensorless_adj
       /\ IF HAS_QUIET_PROBING THEN set_probing_paused(FALSE)
          ELSE UNCHANGED <<heaters_paused, fans_paused, stepper_enabled, trustVars>>
       /\ endstops_enabled' = IF cfg.variant = "SENSORLESS_PROBING" THEN FALSE
                              ELSE endstops_enabled               \* endstops.not_homing()
       /\ stealth' = [a \in Axes |-> IF a \in sensed_axes THEN pdz.stealth_states[a]
                                     ELSE stealth[a]]
       /\ stallguard' = [a \in Axes |-> IF a \in sensed_axes THEN FALSE ELSE stallguard[a]]
       /\ homing_current' = IF cfg.variant = "SENSORLESS_PROBING" THEN FALSE
                            ELSE homing_current
       /\ IF blt_fail
            THEN /\ pdz' = [pdz EXCEPT !.ret = TRUE, !.probe_triggered = probe_triggered,
                                       !.bltouch_fail = "stow",
                                       !.sg_off = sensed_axes,
                                       !.current_off = @ + (IF cfg.variant = "SENSORLESS_PROBING" THEN 1 ELSE 0),
                                       !.resumes = @ + (IF HAS_QUIET_PROBING THEN 1 ELSE 0)]
                 /\ ev' = [ev EXCEPT !.bltouch_fail = TRUE]
                 /\ UNCHANGED <<hit_state, current_z>>
            ELSE /\ hit_state' = {}                               \* endstops.hit_on_purpose()
                 /\ current_z' = stepper_z                        \* set_current_from_steppers_for_axis
                 /\ pdz' = [pdz EXCEPT !.ret = ~probe_triggered,
                                       !.probe_triggered = probe_triggered, !.synced = TRUE,
                                       !.sg_off = sensed_axes,
                                       !.current_off = @ + (IF cfg.variant = "SENSORLESS_PROBING" THEN 1 ELSE 0),
                                       !.resumes = @ + (IF HAS_QUIET_PROBING THEN 1 ELSE 0)]
                 /\ UNCHANGED ev
  /\ Return
  /\ UNCHANGED <<stepper_z, current_x, z_probe_enabled, probe_phys, confVars, ui_status, wait_for_user,
                 running, pap, rzp, sd, pre, last>>

----------------------------------------------------------------------------
(* Probe::tare *)

(* TRUE when the tare is refused: the activation switch reports the probe active *)
tare(active) == cfg.PROBE_TARE /\ cfg.PROBE_TARE_ONLY_WHILE_INACTIVE /\ active

TareInputs == IF cfg.PROBE_TARE /\ cfg.PROBE_TARE_ONLY_WHILE_INACTIVE THEN BOOLEAN ELSE {FALSE}

(* line 720: a tare that is done ends with endstops.hit_on_purpose() *)
hits_after_tare(refused) == IF cfg.PROBE_TARE /\ ~refused THEN {} ELSE hit_state

----------------------------------------------------------------------------
(* Probe::run_z_probe *)

(* faulty variant of z_probe_low_point: the probe offset is left out *)
z_probe_low_point_no_offset ==
  IF "Z" \in axes_trusted THEN Z_PROBE_LOW_POINT ELSE UNTRUSTED_LOW_POINT

(* line 759 *)
z_probe_low_point ==
  IF "Z" \in axes_trusted THEN -offset_z + Z_PROBE_LOW_POINT ELSE UNTRUSTED_LOW_POINT

(* line 781: the height the fast pre-positioning descent goes to *)
fast_down_z ==
  Z_CLEARANCE_DEPLOY_PROBE + FAST_DOWN_MARGIN + (IF offset_z < 0 THEN -offset_z ELSE 0)

(* faulty variants of try_to_probe: the result of the descent is dropped; the *)
(* height is checked even when no sanity check is asked for; nothing fails      *)
try_to_probe_height_only(probe_fail, scheck, clearance) ==
  scheck /\ current_z > -offset_z + clearance
try_to_probe_always_checked(probe_fail, scheck, clearance) ==
  probe_fail \/ current_z > -offset_z + clearance

try_to_probe_never_fails(probe_fail, scheck, clearance) == FALSE

(* lines 741-754, after probe_down_to_z has returned probe_fail *)
try_to_probe(probe_fail, scheck, clearance) ==
  LET early_fail == scheck /\ current_z > -offset_z + clearance
  IN  probe_fail \/ early_fail

(* DIFF_TERN(HAS_DELTA_SENSORLESS_PROBING, current_position.z, largest_sensorless_adj) *)
sample_z ==
  IF HAS_DELTA_SENSORLESS_PROBING THEN current_z - largest_sensorless_adj ELSE current_z

(* faulty variant of insert_probe: the shift starts one place too late, so the *)
(* value at the insertion point is overwritten and the last one is doubled     *)
insert_probe_overwrite(probes, z) ==
  LET later == {i \in 1..Len(probes) : probes[i] > z}
      at    == IF later = {} THEN Len(probes) + 1
               ELSE CHOOSE i \in later : \A j \in later : i <= j
  IN  IF later = {} THEN Append(probes, z)
      ELSE SubSeq(probes, 1, at - 1) \o <<z>> \o SubSeq(probes, at + 1, Len(probes))
             \o <<probes[Len(probes)]>>

(* lines 817-823: insert z into the ascending probes[] *)
insert_probe(probes, z) ==
  LET later == {i \in 1..Len(probes) : probes[i] > z}
      at    == IF later = {} THEN Len(probes) + 1
               ELSE CHOOSE i \in later : \A j \in later : i <= j
  IN  SubSeq(probes, 1, at - 1) \o <<z>> \o SubSeq(probes, at, Len(probes))

Abs(x) == IF x < 0 THEN -x ELSE x

(* faulty variant of median2: the lowest sample is taken for the median *)
median2_lowest(probes) == 2 * probes[1]

(* lines 844-846, twice the median (the median of an even count has a half) *)
median2(probes) ==
  LET PHALF == (Len(probes) - 1) \div 2 IN
  IF Len(probes) % 2 = 1 THEN 2 * probes[PHALF + 1]
  ELSE probes[PHALF + 1] + probes[PHALF + 2]

(* line 851: the highest remaining sample is farther from the median than the lowest *)
drop_max(probes, min_avg_idx, max_avg_idx) ==
  Abs(2 * probes[max_avg_idx] - median2(probes))
    > Abs(2 * probes[min_avg_idx] - median2(probes))

(* lines 849-852: drop i times the end that is farther from the median *)
RECURSIVE trim_range(_, _, _, _)
trim_range(probes, min_avg_idx, max_avg_idx, i) ==
  IF i = 0 THEN <<min_avg_idx, max_avg_idx>>
  ELSE IF drop_max(probes, min_avg_idx, max_avg_idx)
    THEN trim_range(probes, min_avg_idx, max_avg_idx - 1, i - 1)
    ELSE trim_range(probes, min_avg_idx + 1, max_avg_idx, i - 1)

RECURSIVE SumRange(_, _, _)
SumRange(s, lo, hi) == IF lo > hi THEN 0 ELSE s[lo] + SumRange(s, lo + 1, hi)

(* faulty variant of measured_z_of: the weights of double probing are exchanged *)
measured_z_of_swapped(probes, probes_z_sum, first_probe_z) ==
  Frac(sample_z * 2 + first_probe_z * 3, 5)

(* faulty variant of measured_z_of: the sum is divided by the number of all samples *)
measured_z_of_all(probes, probes_z_sum, first_probe_z) ==
  IF cfg.EXTRA_PROBING > 0
    THEN LET r == trim_range(probes, 1, cfg.TOTAL_PROBING, cfg.EXTRA_PROBING)
         IN  Frac(SumRange(probes, r[1], r[2]), cfg.TOTAL_PROBING)
    ELSE Frac(probes_z_sum, cfg.TOTAL_PROBING)

(* lines 840-878: the height returned from the samples *)
measured_z_of(probes, probes_z_sum, first_probe_z) ==
  LET MULTIPLE_PROBING == cfg.TOTAL_PROBING - cfg.EXTRA_PROBING IN
  IF cfg.TOTAL_PROBING > 2
    THEN IF cfg.EXTRA_PROBING > 0
           THEN LET r == trim_range(probes, 1, cfg.TOTAL_PROBING, cfg.EXTRA_PROBING)
                IN  Frac(SumRange(probes, r[1], r[2]), MULTIPLE_PROBING)
           ELSE Frac(probes_z_sum, MULTIPLE_PROBING)
  ELSE IF cfg.TOTAL_PROBING = 2
    THEN Frac(sample_z * 3 + first_probe_z * 2, 5)
  ELSE Num(current_z)

(* the Z that run_z_probe has just read as a sample, with the descent it is read *)
(* from: where the steppers stopped, and whether Z was taken from the steppers   *)
Sampled ==
  [z |-> sample_z, current_z |-> current_z, adj |-> largest_sensorless_adj,
   stop |-> pdz.stop, moved |-> pdz.moved, synced |-> pdz.synced]

(* what the descent just judged adds to the record of the running operation: it *)
(* reached its target untriggered, or it triggered above the clearance          *)
Judged(clearance) ==
  [ev EXCEPT !.no_trigger = @ \/ (pdz.moved /\ ~pdz.probe_triggered),
             !.early_trigger = @ \/ (pdz.synced /\ pdz.probe_triggered
                                       /\ current_z > -offset_z + clearance)]

(* the judgement of try_to_probe on the descent that has just returned *)
Judgement(clearance) ==
  [on |-> TRUE, fail |-> try_to_probe(pdz.ret, rzp.sanity_check, clearance),
   triggered |-> pdz.probe_triggered, bltouch_fail |-> pdz.bltouch_fail,
   z |-> current_z, clearance |-> clearance]

CallRzp(sanity_check, ret) ==
  /\ rzp' = [on |-> TRUE, sanity_check |-> sanity_check, ret |-> NaN,
             p |-> IF cfg.EXTRA_PROBING > 0 THEN 0 ELSE cfg.TOTAL_PROBING - 1,
             probes |-> <<>>, probes_z_sum |-> 0, first_probe_z |-> 0, samples |-> 0,
             judged |-> NoFrame, sampled |-> <<>>, fast_down |-> NoFrame,
             descents |-> 0, raises |-> 0]
  /\ Call("rzp_entry", ret)

(* lines 757-787: tare and fast approach of double probing, or the fast move down *)
run_z_probe_entry ==
  /\ pc = "rzp_entry"
  /\ IF cfg.TOTAL_PROBING = 2
       THEN \E a1 \in TareInputs, a2 \in TareInputs :
              IF tare(a1) \/ tare(a2)
                THEN /\ rzp' = [rzp EXCEPT !.ret = NaN]
                     /\ ev' = [ev EXCEPT !.tare_refused = TRUE]
                     /\ hit_state' = hits_after_tare(tare(a1))
                     /\ Return
                     /\ UNCHANGED pdz
                ELSE /\ CallPdz(z_probe_low_point, "rzp_fast_done")
                     /\ hit_state' = hits_after_tare(FALSE)
                     /\ UNCHANGED <<rzp, ev>>
       ELSE IF cfg.FEEDRATE_FAST_NE_SLOW /\ current_z > fast_down_z
         THEN /\ CallPdz(fast_down_z, "rzp_fast_down_done")
              /\ UNCHANGED <<rzp, ev, hit_state>>
         ELSE /\ pc' = "rzp_slow"
              /\ UNCHANGED <<stack, rzp, ev, pdz, hit_state>>
  /\ UNCHANGED <<posVars, trustVars, hwVars, z_probe_enabled, probe_phys,
                 largest_sensorless_adj, confVars, ui_status, wait_for_user, running, pap, sd, pre, last>>

(* lines 768-775: the fast probe is judged, its Z kept, Z raised for the slow probe *)
run_z_probe_fast_done ==
  /\ pc = "rzp_fast_done"
  /\ IF try_to_probe(pdz.ret, rzp.sanity_check, Z_CLEARANCE_BETWEEN_PROBES)
       THEN /\ rzp' = [rzp EXCEPT !.ret = NaN, !.judged = Judgement(Z_CLEARANCE_BETWEEN_PROBES)]
            /\ ev' = Judged(Z_CLEARANCE_BETWEEN_PROBES)
            /\ Return
            /\ UNCHANGED <<current_z, stepper_z>>
       ELSE /\ rzp' = [rzp EXCEPT !.first_probe_z = sample_z,
                                  !.sampled = Append(@, Sampled),
                                  !.judged = Judgement(Z_CLEARANCE_BETWEEN_PROBES)]
            /\ MoveZ(current_z + Z_CLEARANCE_MULTI_PROBE)
            /\ ev' = [Judged(Z_CLEARANCE_BETWEEN_PROBES) EXCEPT !.moves = @ + 1]
            /\ pc' = "rzp_slow" /\ UNCHANGED stack
  /\ UNCHANGED <<current_x, trustVars, hwVars, probeVars, confVars, ui_status, wait_for_user, running,
                 pap, pdz, sd, pre, last>>

(* lines 784-785: after the fast move down *)
run_z_probe_fast_down_done ==
  /\ pc = "rzp_fast_down_done"
  /\ IF ~pdz.ret
       THEN /\ MoveZ(current_z + Z_CLEARANCE_BETWEEN_PROBES)
            /\ ev' = [ev EXCEPT !.moves = @ + 1]
       ELSE UNCHANGED <<current_z, stepper_z, ev>>
  /\ rzp' = [rzp EXCEPT !.fast_down =
                [on |-> TRUE, target |-> pdz.z, z |-> current_z, hit |-> pdz.hit,
                 triggered |-> pdz.probe_triggered, raised |-> ~pdz.ret]]
  /\ pc' = "rzp_slow"
  /\ UNCHANGED <<stack, current_x, trustVars, hwVars, probeVars, confVars, ui_status, wait_for_user,
                 running, pap, pdz, sd, pre, last>>

(* lines 803-809: one slow sample starts: tare, then the slow descent *)
run_z_probe_slow ==
  /\ pc = "rzp_slow"
  /\ \E a1 \in TareInputs, a2 \in TareInputs :
       IF tare(a1)
         THEN /\ rzp' = [rzp EXCEPT !.ret = Num(1)]        \* "return true" from a float function
              /\ ev' = [ev EXCEPT !.tare_refused = TRUE]
              /\ Return
              /\ UNCHANGED <<pdz, hit_state>>
         ELSE IF tare(a2)
           THEN /\ rzp' = [rzp EXCEPT !.ret = NaN]
                /\ ev' = [ev EXCEPT !.tare_refused = TRUE]
                /\ hit_state' = hits_after_tare(FALSE)
                /\ Return
                /\ UNCHANGED pdz
           ELSE /\ CallPdz(z_probe_low_point, "rzp_slow_done")
                /\ hit_state' = hits_after_tare(FALSE)
                /\ rzp' = [rzp EXCEPT !.descents = @ + 1]
                /\ UNCHANGED ev
  /\ UNCHANGED <<posVars, trustVars, hwVars, z_probe_enabled, probe_phys,
                 largest_sensorless_adj, confVars, ui_status, wait_for_user, running, pap, sd, pre, last>>

(* faulty variant of multi_probe_raise: Z is raised after the last sample too *)
multi_probe_raise_always(p) == cfg.TOTAL_PROBING > 2

(* lines 830-836: Z is raised after the sample of loop index p, except the last:   *)
(* the loop counts up to TOTAL_PROBING - 1 with EXTRA_PROBING, down to 0 without   *)
multi_probe_raise(p) ==
  cfg.TOTAL_PROBING > 2 /\
    (IF cfg.EXTRA_PROBING > 0 THEN p < cfg.TOTAL_PROBING - 1 ELSE p # 0)

(* lines 795-799, 838: the slow loop goes round again after the sample of index p *)
slow_loop_again(p) ==
  cfg.TOTAL_PROBING > 2 /\
    (IF cfg.EXTRA_PROBING > 0 THEN p + 1 < cfg.TOTAL_PROBING ELSE p # 0)

(* lines 808-878: the slow probe is judged and its Z recorded; Z is raised between *)
(* samples; after the last sample the height is computed                          *)
run_z_probe_slow_done ==
  /\ pc = "rzp_slow_done"
  /\ IF try_to_probe(pdz.ret, rzp.sanity_check, Z_CLEARANCE_MULTI_PROBE)
       THEN /\ rzp' = [rzp EXCEPT !.ret = NaN, !.judged = Judgement(Z_CLEARANCE_MULTI_PROBE)]
            /\ ev' = Judged(Z_CLEARANCE_MULTI_PROBE)
            /\ Return
            /\ UNCHANGED <<current_z, stepper_z>>
       ELSE LET z      == sample_z
                multi  == cfg.TOTAL_PROBING > 2
                probes == IF cfg.EXTRA_PROBING > 0 THEN insert_probe(rzp.probes, z)
                          ELSE rzp.probes
                sum    == IF multi /\ cfg.EXTRA_PROBING = 0 THEN rzp.probes_z_sum + z
                          ELSE rzp.probes_z_sum
                raise  == multi_probe_raise(rzp.p)
                more   == slow_loop_again(rzp.p)
            IN  /\ IF raise THEN MoveZ(z + Z_CLEARANCE_MULTI_PROBE)
                   ELSE UNCHANGED <<current_z, stepper_z>>
                /\ ev' = [Judged(Z_CLEARANCE_MULTI_PROBE) EXCEPT
                             !.moves = @ + (IF raise THEN 1 ELSE 0)]
                /\ IF more
                     THEN /\ rzp' = [rzp EXCEPT !.probes = probes, !.probes_z_sum = sum,
                                       !.samples = @ + 1, !.sampled = Append(@, Sampled),
                                       !.raises = @ + (IF raise THEN 1 ELSE 0),
                                       !.judged = Judgement(Z_CLEARANCE_MULTI_PROBE),
                                       !.p = IF cfg.EXTRA_PROBING > 0 THEN @ + 1 ELSE @ - 1]
                          /\ pc' = "rzp_slow" /\ UNCHANGED stack
                     ELSE /\ rzp' = [rzp EXCEPT !.probes = probes, !.probes_z_sum = sum,
                                       !.samples = @ + 1, !.sampled = Append(@, Sampled),
                                       !.raises = @ + (IF raise THEN 1 ELSE 0),
                                       !.judged = Judgement(Z_CLEARANCE_MULTI_PROBE),
                                       !.ret = measured_z_of(probes, sum, rzp.first_probe_z)]
                          /\ Return
  /\ UNCHANGED <<current_x, trustVars, hwVars, probeVars, confVars, ui_status, wait_for_user, running,
                 pap, pdz, sd, pre, last>>

----------------------------------------------------------------------------
(* Probe::probe_at_point and the public deploy() / stow() *)

PROBE_OFFSET_X == 1    \* Probe::offset.x

CallSd(deploy, ret, e) ==
  /\ sd' = [on |-> TRUE, deploy |-> deploy, ret |-> FALSE, old_xy |-> 0]
  /\ ev' = [e EXCEPT !.deploys = @ + (IF deploy THEN 1 ELSE 0),
                     !.stows = @ + (IF deploy THEN 0 ELSE 1)]
  /\ Call("sd_entry", ret)

(* a public operation is called: the machine it finds is kept in pre *)
Begin ==
  /\ pc = "idle"
  /\ pre' = MachineState

(* the running public operation returns to its caller *)
Finish(e, ret_fail, ret) ==
  /\ pc' = "returned" /\ stack' = <<>>
  /\ ev' = [e EXCEPT !.done = TRUE, !.ret_fail = ret_fail, !.ret = ret]

(* the caller goes on: the frames are gone, and of the operation just completed *)
(* only a deploy() or stow() and its result is remembered                      *)
caller_continues ==
  /\ pc = "returned"
  /\ pc' = "idle"
  /\ last' = IF ev.op = "set_deployed"
               THEN [op |-> ev.op, arg |-> ev.arg, ret_fail |-> ev.ret_fail] ELSE NoLast
  /\ ev' = NoEv
  /\ pre' = NoFrame
  /\ pap' = NoFrame /\ rzp' = NoFrame /\ pdz' = NoFrame /\ sd' = NoFrame
  /\ UNCHANGED <<stack, posVars, trustVars, hwVars, probeVars, confVars, ui_status, wait_for_user, running>>

(* rx with probe_relative: two targets out of reach, and the same place given *)
(* as a nozzle position and as a probe position                               *)
ProbeTargets == {<<0, TRUE>>, <<0, FALSE>>, <<1, FALSE>>, <<2, TRUE>>}

(* deploy() and stow(): set_deployed(true) and set_deployed(false) *)
deploy_or_stow(deploy) ==
  /\ Begin
  /\ UNCHANGED last
  /\ CallSd(deploy, "sd_return", FreshEv("set_deployed", IF deploy THEN "deploy" ELSE "stow"))
  /\ UNCHANGED <<posVars, trustVars, hwVars, probeVars, confVars, ui_status, wait_for_user, running,
                 pap, rzp, pdz>>

set_deployed_return ==
  /\ pc = "sd_return"
  /\ Finish(ev, sd.ret, NaN)
  /\ UNCHANGED <<posVars, trustVars, hwVars, probeVars, confVars, ui_status, wait_for_user, running,
                 frameVars, pre, last>>

(* lines 903-928: BLTouch reset, the reachability test, the move over the target, *)
(* the BD sensor reading, then deploy()                                           *)
probe_at_point(rx, probe_relative, raise_after, sanity_check) ==
  /\ Begin
  /\ current_z <= MaxZ
  /\ last' = NoLast
  /\ \E blt_triggered \in (IF cfg.variant = "BLTOUCH" /\ bltouch_hs THEN BOOLEAN ELSE {FALSE}),
        bd_read \in (IF cfg.BD_SENSOR THEN 0..MaxBedErr ELSE {0}) :
       LET e0   == [FreshEv("probe_at_point", raise_after) EXCEPT
                      !.bltouch_reset = blt_triggered, !.reachable = (rx \in Reachable)]
           nz   == IF cfg.DELTA THEN _MIN(DELTA_CLIP_START_HEIGHT, current_z) ELSE current_z
           nx   == IF probe_relative THEN rx - PROBE_OFFSET_X ELSE rx
           fr   == [on |-> TRUE, raise_after |-> raise_after, sanity_check |-> sanity_check,
                    measured_z |-> NaN]
       IN  IF out_of_reach(rx, probe_relative)
             THEN /\ Finish(e0, TRUE, NaN)
                  /\ pap' = fr
                  /\ UNCHANGED <<posVars, sd>>
           ELSE IF cfg.BD_SENSOR
             THEN /\ MoveZ(nz) /\ current_x' = nx
                  /\ Finish([e0 EXCEPT !.moves = 1], FALSE, Num(nz - bd_read))
                  /\ pap' = fr
                  /\ UNCHANGED sd
             ELSE /\ MoveZ(nz) /\ current_x' = nx
                  /\ pap' = fr
                  /\ CallSd(TRUE, "pap_deployed", [e0 EXCEPT !.moves = 1])
  /\ UNCHANGED <<trustVars, hwVars, probeVars, confVars, ui_status, wait_for_user, running, rzp, pdz>>

(* lines 927-929: run_z_probe only when deploy() succeeded *)
probe_at_point_deployed ==
  /\ pc = "pap_deployed"
  /\ IF ~sd.ret
       THEN /\ CallRzp(pap.sanity_check, "pap_probed")
            /\ UNCHANGED <<sd, ev>>
       ELSE /\ CallSd(FALSE, "pap_failed", ev)                  \* isnan(measured_z): stow()
            /\ UNCHANGED rzp
  /\ UNCHANGED <<posVars, trustVars, hwVars, probeVars, confVars, ui_status, wait_for_user, running,
                 pap, pdz, pre, last>>

(* line 934 and line 938: what raise_after asks for after a good probe *)
raise_wanted(raise_after) == raise_after \in {"PROBE_PT_BIG_RAISE", "PROBE_PT_RAISE"}
stow_wanted_stow_only(raise_after) == raise_after = "PROBE_PT_STOW"   \* faulty variant
stow_wanted(raise_after)  == raise_after \in {"PROBE_PT_STOW", "PROBE_PT_LAST_STOW"}

(* lines 929-945: the height, then the raise or the stow asked for in raise_after *)
probe_at_point_probed ==
  /\ pc = "pap_probed"
  /\ LET measured_z == AddF(rzp.ret, offset_z)
         big_raise  == pap.raise_after = "PROBE_PT_BIG_RAISE"
     IN  /\ pap' = [pap EXCEPT !.measured_z = measured_z]
         /\ IF isnan(measured_z)
              THEN /\ CallSd(FALSE, "pap_failed", ev)
                   /\ UNCHANGED <<current_z, stepper_z>>
            ELSE IF raise_wanted(pap.raise_after)
              THEN /\ MoveZ(current_z + (IF big_raise THEN BIG_RAISE
                                         ELSE Z_CLEARANCE_BETWEEN_PROBES))
                   /\ Finish([ev EXCEPT !.moves = @ + 1, !.post_raise = TRUE], FALSE, measured_z)
                   /\ UNCHANGED sd
            ELSE IF stow_wanted(pap.raise_after)
              THEN /\ CallSd(FALSE, "pap_stowed", ev)
                   /\ UNCHANGED <<current_z, stepper_z>>
            ELSE /\ Finish(ev, FALSE, measured_z)
                 /\ UNCHANGED <<current_z, stepper_z, sd>>
  /\ UNCHANGED <<current_x, trustVars, hwVars, probeVars, confVars, ui_status, wait_for_user, running,
                 rzp, pdz, pre, last>>

(* lines 938-945: a failed stow turns the height into NaN, and NaN stows again *)
probe_at_point_stowed ==
  /\ pc = "pap_stowed"
  /\ IF sd.ret
       THEN /\ pap' = [pap EXCEPT !.measured_z = NaN]
            /\ CallSd(FALSE, "pap_failed", ev)
       ELSE /\ Finish(ev, FALSE, pap.measured_z)
            /\ UNCHANGED <<pap, sd>>
  /\ UNCHANGED <<posVars, trustVars, hwVars, probeVars, confVars, ui_status, wait_for_user, running,
                 rzp, pdz, pre, last>>

(* lines 944-953: probing failed *)
probe_at_point_failed ==
  /\ pc = "pap_failed"
  /\ ui_status' = "MSG_LCD_PROBING_FAILED"
  /\ pap' = [pap EXCEPT !.measured_z = NaN]
  /\ Finish(ev, TRUE, NaN)
  /\ UNCHANGED <<posVars, trustVars, hwVars, probeVars, confVars, wait_for_user, running,
                 rzp, pdz, sd, pre, last>>

----------------------------------------------------------------------------
Next ==
  \/ \E d \in BOOLEAN : deploy_or_stow(d)
  \/ set_deployed_return
  \/ caller_continues
  \/ \E t \in ProbeTargets, ra \in RaiseAfter, sc \in BOOLEAN :
       probe_at_point(t[1], t[2], ra, sc)
  \/ probe_at_point_deployed
  \/ probe_at_point_probed
  \/ probe_at_point_stowed
  \/ probe_at_point_failed
  \/ set_deployed_entry
  \/ set_deployed_action
  \/ probe_specific_action_pause
  \/ operator_acts
  \/ wait_loop_exit
  \/ confirm_prompt
  \/ confirm_given
  \/ run_z_probe_entry
  \/ run_z_probe_fast_done
  \/ run_z_probe_fast_down_done
  \/ run_z_probe_slow
  \/ run_z_probe_slow_done
  \/ probe_down_to_z_entry
  \/ probe_down_to_z_move
  \/ settings_changed
  \/ probe_down_to_z_finish

Spec == Init /\ [][Next]_vars

----------------------------------------------------------------------------
(* deploy() and stow() of the manual probe that the firmware waits for (lines      *)
(* 373-399), on their own. The firmware goes on when it can; the operator does one *)
(* of the two things a wait is ended by as long as the firmware waits for them.    *)

WaitInit == InitOf(WaitCfgs)

WaitProgram ==
  \/ set_deployed_entry
  \/ probe_specific_action_pause
  \/ wait_loop_exit
  \/ confirm_prompt
  \/ confirm_given
  \/ set_deployed_action
  \/ set_deployed_return

WaitNext ==
  \/ \E d \in BOOLEAN : deploy_or_stow(d)
  \/ WaitProgram
  \/ operator_acts
  \/ caller_continues

(* the firmware waits for the operator: neither of the two things has happened *)
WaitedFor ==
  \/ pc = "psa_wait" /\ PROBE_TRIGGERED(probe_phys) = sd.deploy /\ wait_for_user
  \/ pc = "psa_confirm" /\ wait_for_user

WaitSpec ==
  WaitInit /\ [][WaitNext]_vars /\ WF_vars(WaitProgram) /\ WF_vars(WaitedFor /\ operator_acts)

----------------------------------------------------------------------------
(* The trimmed mean of run_z_probe (lines 815-823 and 842-860) on its own: the *)
(* samples are drawn by Init, inserted into probes[] one by one, then trimmed  *)
(* one loop iteration at a time and averaged.                                  *)

TrimCfgs ==
  { [BaseCfg EXCEPT !.TOTAL_PROBING = n[1], !.EXTRA_PROBING = n[2]] :
      n \in {<<3, 1>>, <<4, 1>>, <<4, 2>>, <<5, 1>>, <<5, 2>>} }

TrimInit ==
  \E c \in TrimCfgs : \E zs \in [1..c.TOTAL_PROBING -> 0..MaxSample] :
    /\ cfg = c
    /\ pc = "trim_insert" /\ stack = <<>>
    /\ current_z = 0 /\ stepper_z = 0 /\ current_x = 0
    /\ offset_z = 0
    /\ axes_trusted = Axes /\ old_trusted = {}
    /\ stepper_enabled = All(Drivers, TRUE)
    /\ heaters_paused = FALSE /\ fans_paused = FALSE
    /\ stealth = All(Axes, TRUE) /\ stallguard = All(Axes, FALSE)
    /\ homing_current = FALSE /\ endstops_enabled = FALSE
    /\ hit_state = {}
    /\ z_probe_enabled = TRUE /\ probe_phys = "deployed"
    /\ settings = [turn_heaters_off |-> TRUE, stabilize_temperatures_after_probing |-> FALSE]
    /\ test_sensitivity = Axes
    /\ offset_sensorless_adj = All(Axes, 0)
    /\ largest_sensorless_adj = 0
    /\ bltouch_hs = FALSE
    /\ ui_status = "ready" /\ wait_for_user = FALSE /\ running = TRUE
    /\ pap = NoFrame /\ pdz = NoFrame /\ sd = NoFrame
    /\ rzp = [on |-> TRUE, zs |-> zs, p |-> 0, probes |-> <<>>,
              min_avg_idx |-> 1, max_avg_idx |-> c.TOTAL_PROBING, i |-> c.EXTRA_PROBING,
              dropped |-> <<>>, ret |-> NaN]
    /\ ev = NoEv /\ pre = NoFrame /\ last = NoLast

trimFixed == <<stack, posVars, trustVars, hwVars, probeVars, confVars, ui_status, wait_for_user, running,
               pap, pdz, sd, ghostVars>>

(* lines 813-823: the next sample is inserted into probes[] *)
trim_insert ==
  /\ pc = "trim_insert"
  /\ rzp' = [rzp EXCEPT !.probes = insert_probe(@, rzp.zs[rzp.p + 1]), !.p = @ + 1]
  /\ pc' = IF rzp.p + 1 < cfg.TOTAL_PROBING THEN "trim_insert" ELSE "trim_loop"
  /\ UNCHANGED trimFixed

(* lines 850-852: one iteration of the loop that removes a value *)
trim_step ==
  /\ pc = "trim_loop" /\ rzp.i > 0
  /\ IF drop_max(rzp.probes, rzp.min_avg_idx, rzp.max_avg_idx)
       THEN rzp' = [rzp EXCEPT !.max_avg_idx = @ - 1, !.i = @ - 1,
                               !.dropped = Append(@, rzp.max_avg_idx)]
       ELSE rzp' = [rzp EXCEPT !.min_avg_idx = @ + 1, !.i = @ - 1,
                               !.dropped = Append(@, rzp.min_avg_idx)]
  /\ UNCHANGED <<pc, trimFixed>>

(* lines 855-860: the average of the values left *)
trim_average ==
  /\ pc = "trim_loop" /\ rzp.i = 0
  /\ rzp' = [rzp EXCEPT !.ret = Frac(SumRange(rzp.probes, rzp.min_avg_idx, rzp.max_avg_idx),
                                     cfg.TOTAL_PROBING - cfg.EXTRA_PROBING)]
  /\ pc' = "trim_done"
  /\ UNCHANGED trimFixed

TrimNext == trim_insert \/ trim_step \/ trim_average

TrimSpec == TrimInit /\ [][TrimNext]_vars

----------------------------------------------------------------------------
(* Properties *)

AfterDescent == pc \in {"rzp_fast_done", "rzp_fast_down_done", "rzp_slow_done"}
InDescent    == pc \in {"pdz_entry", "pdz_move", "pdz_finish"}
ReturnedFrom(op) == pc = "returned" /\ ev.op = op
StowArgs == {"PROBE_PT_STOW", "PROBE_PT_LAST_STOW"}

(* the operation that has returned commanded nothing and left the machine as it was *)
NoEffect ==
  /\ ev.raises = 0 /\ ev.actions = 0 /\ ev.preheats = 0 /\ ev.moves = 0
  /\ MachineState = pre

(* the judged descent ended above the clearance of its stage *)
TooHigh(j) == j.z > -offset_z + j.clearance

C2_QuietRestored == AfterDescent => QuietState = pdz.snap

(* C3, as stated: every probe_at_point that returns NaN has attempted a stow and *)
(* leaves z_probe_enabled false.                                                 *)
C3_Original ==
  (ReturnedFrom("probe_at_point") /\ isnan(ev.ret)) => (ev.stows >= 1 /\ ~z_probe_enabled)

(* C3, amended: a probe_at_point that returns NaN for a reachable target has     *)
(* attempted a stow and leaves z_probe_enabled false; one that returns NaN       *)
(* because the target is out of reach has attempted no stow and leaves           *)
(* z_probe_enabled as it found it.                                               *)
C3_StowOnFailure ==
  (ReturnedFrom("probe_at_point") /\ isnan(ev.ret)) =>
     IF ev.reachable THEN ev.stows >= 1 /\ ~z_probe_enabled
     ELSE ev.stows = 0 /\ z_probe_enabled = pre.z_probe_enabled

(* a probe called with the probe already deployed failed, and the stow acted *)
C3_Witness ==
  ReturnedFrom("probe_at_point") /\ isnan(ev.ret) /\ ev.reachable /\ pre.z_probe_enabled
    /\ ev.actions >= 1 /\ ~z_probe_enabled

(* C4: after a descent in which the probe triggered, on every return path, the *)
(* logical Z equals the stepper Z and the endstop latch is clear.              *)
C4_Synced ==
  (AfterDescent /\ pdz.moved /\ pdz.hit) => (current_z = stepper_z /\ hit_state = {})

C6_TareRefusedNaN ==
  /\ (pc = "pap_probed" /\ ev.tare_refused) => isnan(rzp.ret)
  /\ (ReturnedFrom("probe_at_point") /\ ev.tare_refused) => isnan(ev.ret)

C9_FlagAfterProbe ==
  (ReturnedFrom("probe_at_point") /\ ~isnan(ev.ret) /\ ev.deploys >= 1) =>
     (z_probe_enabled <=> ev.arg \notin StowArgs)

(* a probe with LastStow, called with the probe deployed, returned a number *)
C9_Witness ==
  ReturnedFrom("probe_at_point") /\ ~isnan(ev.ret) /\ ev.deploys >= 1
    /\ ev.arg = "PROBE_PT_LAST_STOW" /\ ~z_probe_enabled /\ pre.z_probe_enabled

(* C10: probe_at_point of a target out of reach returns NaN with no move, no   *)
(* deploy, no stow and no 'probing failed' status: the position, the deployed  *)
(* flag and the status line are as they were.                                  *)
C10_Unreachable ==
  (ReturnedFrom("probe_at_point") /\ ~ev.reachable) =>
     /\ isnan(ev.ret)
     /\ ev.moves = 0 /\ ev.deploys = 0 /\ ev.stows = 0 /\ ev.actions = 0
     /\ MachineState = pre

(* a target out of reach was asked for with the probe deployed, away from the start *)
C10_Witness ==
  ReturnedFrom("probe_at_point") /\ ~ev.reachable /\ isnan(ev.ret) /\ pre.z_probe_enabled
    /\ pre.current_x = 1

(* C11: on a sled or Allen key build, set_deployed asked for a change of state   *)
(* while the axes it needs are not homed (X for the sled, all for the Allen key) *)
(* calls probe_error_stop and returns failure; the deploy/stow action and the    *)
(* preheat are not run and the deployed flag is as it was.                       *)
C11_UnhomedStop ==
  (/\ ReturnedFrom("set_deployed")
   /\ cfg.variant \in {"Z_PROBE_SLED", "Z_PROBE_ALLEN_KEY"}
   /\ pre.z_probe_enabled # (ev.arg = "deploy")
   /\ IF cfg.variant = "Z_PROBE_SLED" THEN "X" \notin pre.axes_trusted
                                      ELSE pre.axes_trusted # Axes)
    => /\ ev.error_stops = 1 /\ ~running /\ ev.ret_fail
       /\ ev.actions = 0 /\ ev.preheats = 0 /\ ev.xy_returns = 0
       /\ probe_phys = pre.probe_phys
       /\ z_probe_enabled = pre.z_probe_enabled

(* a deploy of the sled probe was refused because X is not homed, after the raise *)
C11_Witness ==
  ReturnedFrom("set_deployed") /\ cfg.variant = "Z_PROBE_SLED" /\ ev.arg = "deploy"
    /\ ~pre.z_probe_enabled /\ "X" \notin pre.axes_trusted /\ ev.error_stops = 1
    /\ ev.raises = 1 /\ ~z_probe_enabled

(* a set_deployed that has returned went past the deployed-flag test of line 525 *)
(* and the homing check of lines 539-544                                         *)
PastHomingCheck ==
  ReturnedFrom("set_deployed") /\ pre.z_probe_enabled # (ev.arg = "deploy")
    /\ ev.error_stops = 0

(* what C12 says of the deploy/stow action and of a verification that passed; *)
(* a verification that failed called stop() and returned failure with no      *)
(* preheat and no move back to the remembered XY                              *)
ActionAndVerification ==
  LET deploy == ev.arg = "deploy" IN
  IF cfg.PROBE_TRIGGERED_WHEN_STOWED_TEST
    THEN /\ ev.actions = (IF PROBE_TRIGGERED(pre.probe_phys) = deploy THEN 1 ELSE 0)
         /\ IF PROBE_TRIGGERED(probe_phys) = deploy
              THEN /\ ev.ret_fail /\ ev.stops = 1 /\ ~running
                   /\ ev.preheats = 0 /\ ev.xy_returns = 0
              ELSE /\ ~ev.ret_fail /\ ev.stops = 0 /\ ev.xy_returns = 1
                   /\ z_probe_enabled = deploy
    ELSE /\ ev.actions = 1 /\ ~ev.ret_fail /\ ev.stops = 0 /\ ev.xy_returns = 1
         /\ z_probe_enabled = deploy

VerificationFailed ==
  cfg.PROBE_TRIGGERED_WHEN_STOWED_TEST /\ PROBE_TRIGGERED(probe_phys) = (ev.arg = "deploy")

RzpReturned == pc = "pap_probed"

(* C13: with TOTAL_PROBING == 2, when the fast and the slow descent both succeed, *)
(* run_z_probe returns (z_slow * 3 + z_fast * 2) / 5, z_fast being the Z sampled  *)
(* after the fast approach and z_slow the Z sampled after the slow descent.        *)
C13_DoubleProbe ==
  (RzpReturned /\ cfg.TOTAL_PROBING = 2 /\ Len(rzp.sampled) = 2) =>
    /\ ~isnan(rzp.ret)
    /\ rzp.ret.num * 5 = rzp.ret.den * (rzp.sampled[2].z * 3 + rzp.sampled[1].z * 2)

(* fast sample 3, slow sample 2: 12/5 is returned *)
C13_Witness ==
  RzpReturned /\ cfg.TOTAL_PROBING = 2 /\ Len(rzp.sampled) = 2
    /\ rzp.sampled[1].z = 3 /\ rzp.sampled[2].z = 2 /\ rzp.ret = Frac(12, 5)

Trimming == pc \in {"trim_loop", "trim_done"}

(* twice the median of the full sample set, from the sorted samples *)
FullMedian2(sorted) ==
  LET n == Len(sorted) IN
  IF n % 2 = 1 THEN 2 * sorted[(n + 1) \div 2]
  ELSE sorted[n \div 2] + sorted[n \div 2 + 1]

(* twice the distance of sample j from the median of the full sample set *)
Dist2(j) == Abs(2 * rzp.probes[j] - FullMedian2(rzp.probes))

(* the samples not yet dropped when the k-th sample is dropped *)
Remaining(k) == (1..Len(rzp.probes)) \ {rzp.dropped[m] : m \in 1..(k - 1)}

(* C14: with TOTAL_PROBING > 2 and EXTRA_PROBING > 0 the trimming drops exactly   *)
(* EXTRA_PROBING samples, and each sample dropped is, when it is dropped, one of  *)
(* the samples not yet dropped that is farthest from the median of the full set;  *)
(* the height returned is the mean of the samples left.                           *)
C14_TrimFarthest ==
  Trimming =>
    /\ \A a, b \in 1..Len(rzp.probes) : a <= b => rzp.probes[a] <= rzp.probes[b]
    /\ \A k \in 1..Len(rzp.dropped) :
         /\ rzp.dropped[k] \in Remaining(k)
         /\ \A j \in Remaining(k) : Dist2(rzp.dropped[k]) >= Dist2(j)
    /\ Len(rzp.dropped) = cfg.EXTRA_PROBING - rzp.i
    /\ Remaining(Len(rzp.dropped) + 1) = rzp.min_avg_idx..rzp.max_avg_idx
    /\ pc = "trim_done" =>
         /\ Len(rzp.dropped) = cfg.EXTRA_PROBING
         /\ <<rzp.min_avg_idx, rzp.max_avg_idx>>
              = trim_range(rzp.probes, 1, cfg.TOTAL_PROBING, cfg.EXTRA_PROBING)
         /\ rzp.ret = measured_z_of(rzp.probes, 0, 0)
         /\ rzp.ret.den = Cardinality(Remaining(cfg.EXTRA_PROBING + 1))
         /\ rzp.ret.num = SumRange(rzp.probes, rzp.min_avg_idx, rzp.max_avg_idx)

(* five samples, two dropped: first the lowest, then the highest *)
C14_Witness ==
  pc = "trim_done" /\ cfg.TOTAL_PROBING = 5 /\ rzp.dropped = <<1, 5>>
    /\ rzp.probes[1] < rzp.probes[2] /\ rzp.probes[4] < rzp.probes[5]

(* C15: when the lowest and the highest sample not yet dropped are equally far *)
(* from the median, the highest (the higher index of the sorted array) is      *)
(* dropped.                                                                    *)
C15_TieDropsHighest ==
  Trimming =>
    \A k \in 1..Len(rzp.dropped) :
      LET lo == CHOOSE a \in Remaining(k) : \A b \in Remaining(k) : a <= b
          hi == CHOOSE a \in Remaining(k) : \A b \in Remaining(k) : a >= b
      IN  Dist2(lo) = Dist2(hi) => rzp.dropped[k] = hi

(* run_z_probe is about to start another slow sample of multiple probing *)
BetweenSamples ==
  pc = "rzp_slow" /\ cfg.TOTAL_PROBING > 2 /\ Len(rzp.sampled) >= 1

(* C16: with TOTAL_PROBING > 2, before the descent of the next slow sample starts *)
(* Z has been raised to at least the highest Z sampled so far in this cycle plus  *)
(* Z_CLEARANCE_MULTI_PROBE.                                                       *)
C16_ClearanceAboveMax ==
  BetweenSamples =>
    /\ current_z >= MaxOf({rzp.sampled[k].z : k \in 1..Len(rzp.sampled)})
                       + Z_CLEARANCE_MULTI_PROBE
    /\ stepper_z >= MaxOf({rzp.sampled[k].stop : k \in 1..Len(rzp.sampled)})
                       + Z_CLEARANCE_MULTI_PROBE

(* C17: after a delta sensorless descent in which the probe triggered,            *)
(* largest_sensorless_adj is the largest of the adjustments of exactly the towers *)
(* that triggered in that descent, whatever it was before (it is reset to -3      *)
(* first); with adjustments X 1, Y 2, Z -1 and the Y tower alone triggered it is  *)
(* 2.                                                                             *)
C17_LargestAdj ==
  (AfterDescent /\ HAS_DELTA_SENSORLESS_PROBING /\ pdz.moved /\ pdz.probe_triggered) =>
    /\ pdz.towers # {}
    /\ largest_sensorless_adj = MaxOf({offset_sensorless_adj[a] : a \in pdz.towers})
    /\ largest_sensorless_adj > SENSORLESS_SENTINEL
    /\ pdz.towers = {"Y"} => largest_sensorless_adj = 2

(* the Z tower alone triggered in a descent that started with the value 2 left by *)
(* an earlier one                                                                 *)
C17_Witness ==
  AfterDescent /\ HAS_DELTA_SENSORLESS_PROBING /\ pdz.moved /\ pdz.probe_triggered
    /\ pdz.towers = {"Z"} /\ pdz.start_adj = 2 /\ largest_sensorless_adj = -1

(* C18: on every exit path of probe_down_to_z, the BLTouch deploy and stow        *)
(* failures included, each set_probing_paused(true) has been followed by one      *)
(* set_probing_paused(false), each stallGuard enable by its disable and the       *)
(* homing current assert by its release: the fans are not left paused, no driver  *)
(* is left in stallGuard and the homing current is released; between descents the *)
(* pause depth is 0, inside a descent it is at most 1.                            *)
C18_PausePaired ==
  /\ AfterDescent =>
       /\ pdz.pauses = pdz.resumes /\ pdz.pauses <= 1
       /\ pdz.sg_on = pdz.sg_off
       /\ pdz.current_on = pdz.current_off /\ pdz.current_on <= 1
       /\ pdz.bltouch_fail = "deploy" => (pdz.pauses = 0 /\ pdz.sg_on = {} /\ pdz.current_on = 0)
       /\ fans_paused = pdz.snap.fans_paused
       /\ stallguard = pdz.snap.stallguard
       /\ homing_current = pdz.snap.homing_current
  /\ pc \in {"pdz_move", "pdz_finish"} =>
       /\ pdz.pauses - pdz.resumes = (IF HAS_QUIET_PROBING THEN 1 ELSE 0)
       /\ pdz.resumes = 0 /\ pdz.sg_off = {} /\ pdz.current_off = 0
  /\ pc \in {"idle", "returned", "pdz_entry"} =>
       (~fans_paused /\ stallguard = All(Axes, FALSE) /\ ~homing_current)

(* a quiet BLTouch descent paused and resumed once, then failed to stow its stylus *)
C18_Witness ==
  AfterDescent /\ pdz.bltouch_fail = "stow" /\ pdz.pauses = 1 /\ pdz.resumes = 1
    /\ cfg.PROBING_FANS_OFF /\ ~fans_paused

(* C19: every Z that run_z_probe reads as a sample (the fast approach, each slow *)
(* sample, the single probe) is read after the move of its descent is over and  *)
(* Z has been taken from the steppers: the Z read is where the steppers         *)
(* stopped; and a height computed from samples has all of them.                 *)
C19_SampleAfterSync ==
  /\ rzp.on =>
       \A k \in 1..Len(rzp.sampled) :
         /\ rzp.sampled[k].moved /\ rzp.sampled[k].synced
         /\ rzp.sampled[k].current_z = rzp.sampled[k].stop
  /\ (RzpReturned /\ ~isnan(rzp.ret) /\ ~ev.tare_refused) =>
       Len(rzp.sampled) = cfg.TOTAL_PROBING

(* a low-speed BLTouch triggered above the target, stowed its stylus, and its Z *)
(* was read                                                                    *)
C19_Witness ==
  RzpReturned /\ cfg.variant = "BLTOUCH" /\ ~bltouch_hs /\ ~isnan(rzp.ret)
    /\ Len(rzp.sampled) = 1 /\ rzp.sampled[1].synced
    /\ pdz.hit /\ pdz.stop > pdz.target /\ rzp.sampled[1].z = pdz.stop

(* sample k of the running run_z_probe with the delta sensorless correction: *)
(* current_position.z - largest_sensorless_adj as they were when it was read *)
Corrected(k) == rzp.sampled[k].current_z - rzp.sampled[k].adj

RECURSIVE SumCorrected(_)
SumCorrected(k) == IF k = 0 THEN 0 ELSE Corrected(k) + SumCorrected(k - 1)

(* C20: on a delta sensorless build every height run_z_probe returns is computed *)
(* from the corrected samples current_z - largest_sensorless_adj: the corrected  *)
(* sample itself for single probing, the 3:2 weighting of the corrected slow and *)
(* fast samples for double probing, the mean of the corrected samples for        *)
(* multiple probing.                                                             *)
C20_SensorlessCorrected ==
  (RzpReturned /\ HAS_DELTA_SENSORLESS_PROBING /\ ~isnan(rzp.ret)) =>
    CASE cfg.TOTAL_PROBING = 1 ->
           rzp.ret.num = rzp.ret.den * Corrected(1)
      [] cfg.TOTAL_PROBING = 2 ->
           rzp.ret.num * 5 = rzp.ret.den * (Corrected(2) * 3 + Corrected(1) * 2)
      [] OTHER ->
           rzp.ret.num * cfg.TOTAL_PROBING = rzp.ret.den * SumCorrected(cfg.TOTAL_PROBING)

(* the fast pre-positioning descent of lines 782-786 is over and slow sampling is *)
(* about to begin                                                                 *)
AfterFastDown == pc = "rzp_slow" /\ rzp.fast_down.on /\ rzp.samples = 0

(* C21: in the fast pre-positioning of run_z_probe (TOTAL_PROBING other than 2,   *)
(* the fast feedrate differs from the slow one, Z above the start height), when   *)
(* the fast descent reaches the start height with no trigger, Z is then raised by *)
(* Z_CLEARANCE_BETWEEN_PROBES before slow sampling begins.                        *)
C21_RaiseAfterFastDown ==
  (AfterFastDown /\ ~rzp.fast_down.hit /\ ~rzp.fast_down.triggered) =>
     /\ rzp.fast_down.raised
     /\ current_z = rzp.fast_down.target + Z_CLEARANCE_BETWEEN_PROBES

(* C22: with a BLTouch in low-speed mode, when the stylus could not be deployed  *)
(* before, or stowed after, a descent of run_z_probe (fast approach, fast        *)
(* pre-positioning, slow sample), run_z_probe returns NaN.                       *)
C22_StylusFailurePropagates ==
  (RzpReturned /\ ev.bltouch_fail) => isnan(rzp.ret)

(* the samples of the running run_z_probe in the order they were read, and sorted *)
SampleZs == [k \in 1..Len(rzp.sampled) |-> rzp.sampled[k].z]
SortedZs == SortSeq(SampleZs, LAMBDA a, b : a < b)

(* some run of n neighbours of the sorted samples has the sum of the height returned *)
KeptRanges(n) ==
  { lo \in 1..(Len(SortedZs) - n + 1) : SumRange(SortedZs, lo, lo + n - 1) = rzp.ret.num }

(* C23: with TOTAL_PROBING > 2, when every descent succeeded, the height returned *)
(* is the sum of the kept samples divided by their number: all the samples when   *)
(* EXTRA_PROBING is 0, and the TOTAL_PROBING - EXTRA_PROBING neighbours of the    *)
(* sorted samples that the trimming left when EXTRA_PROBING > 0.                  *)
C23_MeanOfKept ==
  (RzpReturned /\ cfg.TOTAL_PROBING > 2 /\ Len(rzp.sampled) = cfg.TOTAL_PROBING) =>
    LET kept == cfg.TOTAL_PROBING - cfg.EXTRA_PROBING
        r    == trim_range(SortedZs, 1, cfg.TOTAL_PROBING, cfg.EXTRA_PROBING)
    IN  /\ ~isnan(rzp.ret)
        /\ rzp.ret.den = kept
        /\ r[2] - r[1] + 1 = kept
        /\ rzp.ret.num = SumRange(SortedZs, r[1], r[2])
        /\ r[1] \in KeptRanges(kept)
        /\ cfg.EXTRA_PROBING = 0 => rzp.ret.num = SumRange(SampleZs, 1, cfg.TOTAL_PROBING)

(* samples 3, 2, 3 with one to drop: the 2 is dropped and 6/2 returned *)
C23_Witness ==
  RzpReturned /\ cfg.TOTAL_PROBING = 3 /\ cfg.EXTRA_PROBING = 1
    /\ Len(rzp.sampled) = 3 /\ SampleZs = <<3, 2, 3>> /\ rzp.ret = Frac(6, 2)

(* run_z_probe returned a height after every descent it made succeeded *)
AllSucceeded == RzpReturned /\ ~isnan(rzp.ret) /\ ~ev.tare_refused

(* the number of slow samples of one run_z_probe *)
SlowSamples == IF cfg.TOTAL_PROBING > 2 THEN cfg.TOTAL_PROBING ELSE 1

(* C24: when every descent succeeds the slow loop makes TOTAL_PROBING slow        *)
(* descents with TOTAL_PROBING > 2 and one with TOTAL_PROBING 1 or 2; Z is raised *)
(* by Z_CLEARANCE_MULTI_PROBE after every slow sample but the last, in the loop   *)
(* that counts up (EXTRA_PROBING > 0) and in the loop that counts down: before    *)
(* the descent of sample k + 1 there were k raises and Z is the Z of sample k     *)
(* plus the clearance, and at the return there were SlowSamples - 1 raises and Z  *)
(* is still the Z of the last sample.                                             *)
C24_SlowDescentsAndRaises ==
  /\ AllSucceeded =>
        /\ rzp.descents = SlowSamples
        /\ rzp.samples = SlowSamples
        /\ rzp.raises = SlowSamples - 1
        /\ current_z = rzp.sampled[Len(rzp.sampled)].current_z
  /\ (pc = "rzp_slow" /\ rzp.samples >= 1) =>
        /\ cfg.TOTAL_PROBING > 2
        /\ rzp.samples < cfg.TOTAL_PROBING
        /\ rzp.descents = rzp.samples
        /\ rzp.raises = rzp.samples
        /\ current_z = rzp.sampled[Len(rzp.sampled)].z + Z_CLEARANCE_MULTI_PROBE

(* three slow samples were read in the loop that counts down, with two raises *)
C24_Witness ==
  AllSucceeded /\ cfg.TOTAL_PROBING = 3 /\ cfg.EXTRA_PROBING = 0
    /\ rzp.descents = 3 /\ rzp.raises = 2

(* the wait loop of probe_specific_action is running *)
InWaitLoop == pc = "psa_wait"

(* set_deployed is about to return success after the whole manual cycle *)
CycleCompleted ==
  /\ pc = "sd_return" /\ ~sd.ret
  /\ ~wait_for_user
  /\ ev.prompts = 1 /\ ev.actions = 1 /\ ev.xy_returns = 1
  /\ z_probe_enabled = sd.deploy
  /\ running

(* C25: with PAUSE_BEFORE_DEPLOY_STOW and PAUSE_PROBE_DEPLOY_WHEN_TRIGGERED the wait *)
(* loop is left only when the trigger no longer reads the same as the request or   *)
(* wait_for_user is no longer set, and wait_for_user is false when it is left;     *)
(* provided one of the two happens the loop ends, and the cycle is not given up:   *)
(* the confirmation is asked for, the action counted and set_deployed returns      *)
(* success with the flag set as asked.                                             *)
C25_WaitLoopEnds ==
  /\ [][(InWaitLoop /\ ~InWaitLoop') =>
          /\ ~(sd.deploy = PROBE_TRIGGERED(probe_phys) /\ wait_for_user)
          /\ ~wait_for_user' /\ pc' = "psa_prompt"]_vars
  /\ InWaitLoop ~> CycleCompleted

(* the wait was ended from the UI with the probe not attached: the confirmation *)
(* is asked for all the same                                                    *)
C25_Witness ==
  pc = "psa_prompt" /\ sd.deploy /\ PROBE_TRIGGERED(probe_phys) /\ ~wait_for_user

(* C26: set_deployed changes the deployed flag only when it returns success: when *)
(* deploy() or stow() returns failure (the not-homed stop, a deploy or a stow     *)
(* that the verification found failed) the flag is what it was before the call.   *)
C26_FlagKeptOnFailure ==
  (pc = "returned" /\ ev.op = "set_deployed" /\ ev.ret_fail) =>
     z_probe_enabled = pre.z_probe_enabled

(* a descent that began with the heaters on and called set_probing_paused(true) *)
(* and set_probing_paused(false) is over                                        *)
QuietDescentOver ==
  /\ pdz.on /\ pdz.pauses = 1 /\ pdz.resumes = 1
  /\ pc \notin {"pdz_entry", "pdz_move", "pdz_finish"}
  /\ cfg.PROBING_HEATERS_OFF /\ ~pdz.snap.heaters_paused

(* C27: the heaters that set_probing_paused(true) paused at the start of a descent *)
(* are resumed by set_probing_paused(false) at its end, also when                  *)
(* settings.turn_heaters_off was changed in between: after the descent the        *)
(* heaters are not paused.                                                         *)
C27_HeatersResumed ==
  QuietDescentOver => ~heaters_paused

(* how often v occurs in the sequence s *)
Occurrences(s, v) == Cardinality({k \in 1..Len(s) : s[k] = v})

(* C28: with EXTRA_PROBING > 0, after the k-th sample was inserted probes[0..k-1] *)
(* is in ascending order and holds the k samples read so far, each as often as it *)
(* was read, equal samples included.                                              *)
C28_SortedPermutation ==
  (pc \in {"trim_insert", "trim_loop"}) =>
    /\ Len(rzp.probes) = rzp.p
    /\ \A k \in 1..(rzp.p - 1) : rzp.probes[k] <= rzp.probes[k + 1]
    /\ \A v \in 0..MaxSample :
         Occurrences(rzp.probes, v) = Occurrences(SubSeq(rzp.zs, 1, rzp.p), v)

(* three samples were inserted, two of them equal and read out of order *)
C28_Witness ==
  pc = "trim_insert" /\ rzp.p = 3 /\ SubSeq(rzp.zs, 1, 3) = <<2, 1, 2>>
    /\ rzp.probes = <<1, 2, 2>>
====
